---------------------------- MODULE Spec2Model ----------------------------
(***************************************************************************)
(* A model of the DressCode dataset loader (src/src/datasets/dresscode.py)  *)
(* and of the head/body compositor (src/src/utils/image_composition.py).    *)
(*                                                                          *)
(* File names and garment names are sequences of one-character strings, so  *)
(* that c_name.split('_')[0] is computed and not assumed.  Dictionaries are *)
(* functions whose DOMAIN is the key set.  Python lists are sequences; a    *)
(* Python index k is position k + 1 of the sequence.  Real-valued pixel and *)
(* coordinate values are exact fractions <<numerator, denominator>>.        *)
(***************************************************************************)
EXTENDS Integers, Sequences, FiniteSets, TLC

VARIABLES
    \* ---- constructor arguments and the files it reads
    phase,                       \* 'train' or 'test'
    num_test_image,              \* the per-category limit
    category,                    \* the sequence of category names
    outputlist,                  \* the requested field names
    fine_json,                   \* content of fine_captions.json
    coarse_json,                 \* content of coarse_captions.json
    pairs,                       \* category -> lines of its pairing file
    \* ---- the dataset object
    captions_dict,
    im_names,
    c_names,
    dataroot_names,
    multimodal_data_path_names,
    \* ---- position of the constructor / of the caller
    pc,                          \* "init", "captions", "category", "lines", "ready", "failed"
    ci,                          \* position in category of the for loop of line 86
    li,                          \* position in f.readlines() of the loops of lines 101 / 115
    i,                           \* the counter i of lines 99-113
    ncalls,                      \* number of __getitem__ calls made so far
    result,                      \* outcome of the last __getitem__ call
    \* ---- one extraction, lines 267-359: keypoints
    height,                      \* self.height = size[0]
    width,                       \* self.width = size[1]
    radius,                      \* self.radius
    item_category,               \* the local category = str(dataroot.name) of line 213
    pose_data,                   \* the keypoints read at lines 269-273, as <<x, y>>
    pose_map,                    \* one channel per keypoint (lines 276, 294, then 307)
    im_pose,                     \* the rectangles drawn by pose_draw
    neck,                        \* the ellipses drawn by neck_draw
    im_arms,                     \* the vertices of the line drawn by arms_draw
    points,                      \* the two shoulder points of lines 357-359
    ppc,                         \* "idle", "start", "stamped", "heat", "arms", "done"
    \* ---- one extraction, lines 144 and 179-185: the sketch
    sketch_threshold_range,      \* self.sketch_threshold_range
    sketch_threshold,            \* the local of line 144
    sketch,                      \* the pixels of the resized sketch image (line 179)
    im_sketch,                   \* the tensor of line 185
    spc,                         \* "idle", "start", "drawn", "done"
    \* ---- one call of the compositor, image_composition.py
    variant,                     \* "compose_img" or "compose_img_dresscode"
    gt_img,
    fake_img,
    im_parse,
    im_head,
    composed,                    \* the returned tensor
    cpc,                         \* "idle", "start", "done"
    \* ---- one extraction, lines 373-392: the masks, as arrays over the pixels
    image,                       \* the tensor of line 169, channel -> pixel -> value
    parser_mask_changeable,
    parser_mask_fixed,           \* as line 367 leaves it
    parse_mask,                  \* the result of cv2.dilate (line 373), then line 374
    parse_mask_total,
    inpaint_mask,
    im_mask,
    mpc,                         \* "idle", "start", "masked", "done", "failed"
    \* ---- one extraction, lines 352-365: the neck cut
    parse_head,                  \* pixel -> 0 or 1
    parse_head_2,
    lstsq,                       \* <<m, c>> of line 362
    npc                          \* "idle", "start", "done"

dsVars == <<phase, num_test_image, category, outputlist, fine_json, coarse_json, pairs,
            captions_dict, im_names, c_names, dataroot_names, multimodal_data_path_names,
            pc, ci, li, i, ncalls, result>>

poseVars == <<height, width, radius, item_category, pose_data, pose_map, im_pose, neck,
              im_arms, points, ppc>>

sketchVars == <<sketch_threshold_range, sketch_threshold, sketch, im_sketch, spc>>

compVars == <<variant, gt_img, fake_img, im_parse, im_head, composed, cpc>>

maskVars == <<image, parser_mask_changeable, parser_mask_fixed, parse_mask, parse_mask_total,
              inpaint_mask, im_mask, mpc>>

neckVars == <<parse_head, parse_head_2, lstsq, npc>>

pixVars == <<poseVars, sketchVars, compVars, maskVars, neckVars, neckVars>>

vars == <<dsVars, pixVars>>

-----------------------------------------------------------------------------
(* Bounds of the model *)

MaxLines == 3

MaxCalls == 2

-----------------------------------------------------------------------------
(* Vocabulary *)

possible_outputs ==
    {"c_name", "im_name", "cloth", "image", "im_cloth", "shape", "im_head", "im_pose",
     "pose_map", "parse_array", "dense_labels", "dense_uv", "skeleton",
     "im_mask", "inpaint_mask", "parse_mask_total", "cloth_sketch", "im_sketch", "captions",
     "original_captions", "category", "hands", "parse_head_2", "stitch_label"}

DefaultOutputlist ==
    {"c_name", "im_name", "image", "im_cloth", "shape", "pose_map",
     "parse_array", "im_mask", "inpaint_mask", "parse_mask_total",
     "im_sketch", "captions", "original_captions", "category", "stitch_label"}

AllowedCategories == {"dresses", "upper_body", "lower_body"}

-----------------------------------------------------------------------------
(* Helpers on sequences and dictionaries *)

Range(s) == {s[k] : k \in 1..Len(s)}

EmptyDict == [k \in {} |-> <<>>]

\* c_name.split('_')[0]: the characters before the first underscore, the whole
\* name when it has none.
RECURSIVE SplitFirst(_)
SplitFirst(s) ==
    IF s = <<>> THEN <<>>
    ELSE IF Head(s) = "_" THEN <<>>
    ELSE <<Head(s)>> \o SplitFirst(Tail(s))

\* A variant of the filter below that also drops the entries of exactly 3 captions.
FilterFewStrict(d) == [k \in {x \in DOMAIN d : Len(d[x]) > 3} |-> d[k]]

\* {k: v for k, v in d.items() if len(v) >= 3}
FilterFew(d) == [k \in {x \in DOMAIN d : Len(d[x]) >= 3} |-> d[k]]

\* d.update(u): the keys of u overwrite those of d.
DictUpdate(d, u) ==
    [k \in DOMAIN d \cup DOMAIN u |-> IF k \in DOMAIN u THEN u[k] ELSE d[k]]

\* s starts with the characters of k
StartsWith(s, k) == Len(k) <= Len(s) /\ SubSeq(s, 1, Len(k)) = k

\* A variant of the test below that accepts any garment name beginning with a key.
InCaptionsPrefix(c_name, dict) == \E k \in DOMAIN dict : StartsWith(c_name, k)

\* The test of lines 106 and 117, negated: the line is kept.
InCaptions(c_name, dict) == SplitFirst(c_name) \in DOMAIN dict

\* random.shuffle(captions): any permutation of the list.
Shuffles(s) ==
    LET n == Len(s)
        P == {p \in [1..n -> 1..n] : \A a, b \in 1..n : a # b => p[a] # p[b]}
    IN  {[k \in 1..n |-> s[p[k]]] : p \in P}

\* ", ".join(captions)
RECURSIVE Join(_)
Join(s) ==
    IF s = <<>> THEN <<>>
    ELSE IF Len(s) = 1 THEN <<s[1]>>
    ELSE <<s[1], ", ">> \o Join(Tail(s))

-----------------------------------------------------------------------------
(* __getitem__, lines 130-416: which local names are bound when line 404 runs *)

\* line 146
GateCaptions(ol) == "captions" \in ol \/ "original_captions" \in ol

\* line 165
GateImage(ol) == "image" \in ol \/ "im_head" \in ol \/ "im_cloth" \in ol

\* line 171
GateSketch(ol) == "im_sketch" \in ol

\* line 187
GateParse(ol) ==
    \/ "im_pose" \in ol \/ "parser_mask" \in ol \/ "im_mask" \in ol
    \/ "parse_mask_total" \in ol \/ "parse_array" \in ol \/ "pose_map" \in ol
    \/ "parse_array" \in ol \/ "shape" \in ol \/ "im_head" \in ol

\* line 397
GateStitch(ol) == "stitch_label" \in ol

\* The names of possible_outputs that are local variables of __getitem__ when
\* the loop of line 403 reads them with vars()[k].
BoundLocals(ol) ==
    {"c_name", "im_name"}                                               \* 139-140
    \cup (IF GateCaptions(ol) THEN {"captions", "original_captions"} ELSE {})  \* 147-153
    \cup (IF GateImage(ol) THEN {"image"} ELSE {})                      \* 166-169
    \cup (IF GateSketch(ol) THEN {"im_sketch"} ELSE {})                 \* 174-185
    \cup (IF GateParse(ol)
          THEN {"parse_array", "category", "shape", "pose_map", "im_pose", "hands",
                "parse_head_2", "im_mask", "inpaint_mask", "parse_mask_total"}
               \cup (IF "im_head" \in ol THEN {"im_head"} ELSE {})     \* 255-257
               \cup (IF "im_cloth" \in ol THEN {"im_cloth"} ELSE {})   \* 258-259
          ELSE {})
    \cup (IF GateStitch(ol) THEN {"stitch_label"} ELSE {})              \* 398-400

\* Line 376 reads the local image, which only line 166 binds.
ReadsUnboundImage(ol) == GateParse(ol) /\ ~GateImage(ol)

NoResult == [called |-> FALSE, index |-> 0, err |-> "none", keys |-> {}, original_captions |-> <<>>]

-----------------------------------------------------------------------------
(* Inputs: garment names, caption tables, pairing files *)

a_1  == <<"a", "_", "1">>
ab_2 == <<"a", "b", "_", "2">>
c3   == <<"c", "3">>

id_a  == <<"a">>
id_ab == <<"a", "b">>
id_c3 == <<"c", "3">>

Line1 == <<"p1_0.jpg", a_1>>
Line2 == <<"p2_0.jpg", ab_2>>
Line3 == <<"p3_0.jpg", c3>>

\* All sequences over S of length at most n
SeqsUpTo(S, n) == UNION {[1..k -> S] : k \in 0..n}

NoPairs == [c \in AllowedCategories \cup {"shoes"} |-> <<>>]

\* The dictionaries with keys among K, each key mapped to one of Vals
DictsOver(K, Vals) == UNION {[D -> Vals] : D \in SUBSET K}

\* Index family: the pairing files vary, the caption tables decide only which
\* garment identifiers are known.
InitIndex ==
    /\ phase = "test"
    /\ outputlist = DefaultOutputlist
    /\ num_test_image \in {0, 1, 2}
    /\ category \in {<<"upper_body">>, <<"dresses", "lower_body">>}
    /\ fine_json \in {[k \in {id_a} |-> <<"x", "y", "z">>],
                      [k \in {id_a, id_ab} |-> <<"x", "y", "z">>]}
    /\ coarse_json \in {EmptyDict, [k \in {id_c3} |-> <<"k">>]}
    /\ \E f \in [Range(category) -> SeqsUpTo({Line1, Line2}, MaxLines)] :
           pairs = [c \in DOMAIN NoPairs |-> IF c \in DOMAIN f THEN f[c] ELSE <<>>]

\* Caption family: the two caption tables vary, one short pairing file.
InitCaptions ==
    /\ phase \in {"train", "test"}
    /\ outputlist \in {DefaultOutputlist, {"im_name", "c_name"}}
    /\ num_test_image = 0
    /\ category = <<"upper_body">>
    /\ fine_json \in DictsOver({id_a, id_ab}, {<<"x", "y">>, <<"x", "y", "z">>})
    /\ coarse_json \in DictsOver({id_a, id_ab}, {<<"k", "m">>})
    /\ pairs = [NoPairs EXCEPT !["upper_body"] = <<Line1, Line2>>]

\* Field family: the requested field set varies (every set of at most two
\* names of the vocabulary, the default, and one with an unknown name).
InitFields ==
    /\ phase = "test"
    /\ outputlist \in {{x, y} : x, y \in possible_outputs}
                      \cup {{}, DefaultOutputlist, {"im_name", "depth"}}
    /\ num_test_image \in {0, 1}
    /\ category \in {<<"dresses">>, <<"lower_body", "shoes">>}
    /\ fine_json = [k \in {id_a} |-> <<"x", "y", "z">>]
    /\ coarse_json = [k \in {id_c3} |-> <<"k">>]
    /\ pairs = [NoPairs EXCEPT !["dresses"] = <<Line1, Line2, Line3>>,
                               !["lower_body"] = <<Line3>>]

\* No extraction is being followed pixel by pixel.
IdlePose ==
    /\ height = 512
    /\ width = 384
    /\ radius = 5
    /\ item_category = "dresses"
    /\ pose_data = <<>>
    /\ pose_map = <<>>
    /\ im_pose = {}
    /\ neck = {}
    /\ im_arms = <<>>
    /\ points = <<>>
    /\ ppc = "idle"

\* No sketch is being followed.
IdleSketch ==
    /\ sketch_threshold_range = <<20, 127>>
    /\ sketch_threshold = 20
    /\ sketch = <<>>
    /\ im_sketch = <<>>
    /\ spc = "idle"

\* The compositor is not being called.
IdleCompose ==
    /\ variant = "compose_img"
    /\ gt_img = <<>>
    /\ fake_img = <<>>
    /\ im_parse = <<>>
    /\ im_head = <<>>
    /\ composed = <<>>
    /\ cpc = "idle"

\* No mask is being followed.
IdleMask ==
    /\ image = <<>>
    /\ parser_mask_changeable = <<>>
    /\ parser_mask_fixed = <<>>
    /\ parse_mask = <<>>
    /\ parse_mask_total = <<>>
    /\ inpaint_mask = <<>>
    /\ im_mask = <<>>
    /\ mpc = "idle"

\* No neck cut is being followed.
IdleNeck ==
    /\ parse_head = <<>>
    /\ parse_head_2 = <<>>
    /\ lstsq = <<>>
    /\ npc = "idle"

\* Lines 66-69: the four lists start empty.
InitObject ==
    /\ captions_dict = EmptyDict
    /\ im_names = <<>>
    /\ c_names = <<>>
    /\ dataroot_names = <<>>
    /\ multimodal_data_path_names = <<>>
    /\ pc = "init"
    /\ ci = 1
    /\ li = 1
    /\ i = 0
    /\ ncalls = 0
    /\ result = NoResult

Init ==
    /\ InitIndex \/ InitCaptions \/ InitFields
    /\ InitObject
    /\ IdlePose
    /\ IdleSketch
    /\ IdleCompose
    /\ IdleMask
    /\ IdleNeck

args == <<phase, num_test_image, category, outputlist, fine_json, coarse_json, pairs>>
lists == <<im_names, c_names, dataroot_names, multimodal_data_path_names>>

-----------------------------------------------------------------------------
(* __init__, lines 24-128 *)

\* line 76, the assertion holds
AssertOutputs ==
    /\ pc = "init"
    /\ \A x \in outputlist : x \in possible_outputs
    /\ pc' = "captions"
    /\ UNCHANGED <<pixVars, args, lists, captions_dict, ci, li, i, ncalls, result>>

\* line 76, the assertion fails
AssertOutputsFails ==
    /\ pc = "init"
    /\ ~(\A x \in outputlist : x \in possible_outputs)
    /\ pc' = "failed"
    /\ UNCHANGED <<pixVars, args, lists, captions_dict, ci, li, i, ncalls, result>>

\* lines 78-84
LoadCaptions ==
    /\ pc = "captions"
    /\ captions_dict' = DictUpdate(FilterFew(fine_json), coarse_json)
    /\ pc' = "category"
    /\ UNCHANGED <<pixVars, args, lists, ci, li, i, ncalls, result>>

\* lines 86-99: the next category is valid, its pairing file is opened
OpenCategory ==
    /\ pc = "category"
    /\ ci <= Len(category)
    /\ category[ci] \in AllowedCategories
    /\ li' = 1
    /\ i' = 0
    /\ pc' = "lines"
    /\ UNCHANGED <<pixVars, args, lists, captions_dict, ci, ncalls, result>>

\* line 87, the assertion fails
AssertCategoryFails ==
    /\ pc = "category"
    /\ ci <= Len(category)
    /\ category[ci] \notin AllowedCategories
    /\ pc' = "failed"
    /\ UNCHANGED <<pixVars, args, lists, captions_dict, ci, li, i, ncalls, result>>

CurLines == pairs[category[ci]]

\* lines 101-103: the limit is positive and i has passed it
LimitedBreak ==
    /\ pc = "lines"
    /\ num_test_image > 0
    /\ li <= Len(CurLines)
    /\ i > num_test_image
    /\ ci' = ci + 1
    /\ pc' = "category"
    /\ UNCHANGED <<pixVars, args, lists, captions_dict, li, i, ncalls, result>>

\* lines 105-107: the garment identifier is unknown, the line is skipped
LimitedSkip ==
    /\ pc = "lines"
    /\ num_test_image > 0
    /\ li <= Len(CurLines)
    /\ ~(i > num_test_image)
    /\ ~InCaptions(CurLines[li][2], captions_dict)
    /\ li' = li + 1
    /\ UNCHANGED <<pixVars, args, lists, captions_dict, pc, ci, i, ncalls, result>>

\* lines 105-113
LimitedAppend ==
    /\ pc = "lines"
    /\ num_test_image > 0
    /\ li <= Len(CurLines)
    /\ ~(i > num_test_image)
    /\ InCaptions(CurLines[li][2], captions_dict)
    /\ im_names' = Append(im_names, CurLines[li][1])
    /\ c_names' = Append(c_names, CurLines[li][2])
    /\ dataroot_names' = Append(dataroot_names, category[ci])
    /\ i' = i + 1
    /\ li' = li + 1
    /\ UNCHANGED <<pixVars, args, multimodal_data_path_names, captions_dict, pc, ci, ncalls, result>>

\* lines 115-118
FullSkip ==
    /\ pc = "lines"
    /\ ~(num_test_image > 0)
    /\ li <= Len(CurLines)
    /\ ~InCaptions(CurLines[li][2], captions_dict)
    /\ li' = li + 1
    /\ UNCHANGED <<pixVars, args, lists, captions_dict, pc, ci, i, ncalls, result>>

\* lines 115-123
FullAppend ==
    /\ pc = "lines"
    /\ ~(num_test_image > 0)
    /\ li <= Len(CurLines)
    /\ InCaptions(CurLines[li][2], captions_dict)
    /\ im_names' = Append(im_names, CurLines[li][1])
    /\ c_names' = Append(c_names, CurLines[li][2])
    /\ dataroot_names' = Append(dataroot_names, category[ci])
    /\ multimodal_data_path_names' = Append(multimodal_data_path_names, category[ci])
    /\ li' = li + 1
    /\ UNCHANGED <<pixVars, args, captions_dict, pc, ci, i, ncalls, result>>

\* the loops of lines 101 and 115 run out of lines
EndOfFile ==
    /\ pc = "lines"
    /\ li > Len(CurLines)
    /\ ci' = ci + 1
    /\ pc' = "category"
    /\ UNCHANGED <<pixVars, args, lists, captions_dict, li, i, ncalls, result>>

\* lines 125-128: the loop of line 86 is over
Finish ==
    /\ pc = "category"
    /\ ci > Len(category)
    /\ pc' = "ready"
    /\ UNCHANGED <<pixVars, args, lists, captions_dict, ci, li, i, ncalls, result>>

-----------------------------------------------------------------------------
(* __len__, lines 418-419 *)

DatasetLen == Len(c_names)

-----------------------------------------------------------------------------
(* __getitem__, lines 130-416 *)

\* The call fails at line 142 when the fourth list is too short.
GetItemIndexError(index) ==
    /\ pc = "ready"
    /\ ncalls < MaxCalls
    /\ index \in 0..(DatasetLen - 1)
    /\ ~(index < Len(multimodal_data_path_names))
    /\ result' = [called |-> TRUE, index |-> index, err |-> "IndexError", keys |-> {},
                  original_captions |-> <<>>]
    /\ ncalls' = ncalls + 1
    /\ UNCHANGED <<pixVars, args, lists, captions_dict, pc, ci, li, i>>

\* Lines 139-416 once the four lookups have succeeded.
GetItemBody(index) ==
    /\ pc = "ready"
    /\ ncalls < MaxCalls
    /\ index \in 0..(DatasetLen - 1)
    /\ index < Len(multimodal_data_path_names)
    /\ LET key == SplitFirst(c_names[index + 1])
           old == captions_dict[key]
       IN  \E captions \in (IF GateCaptions(outputlist) /\ phase = "train"
                             THEN Shuffles(old) ELSE {old}) :
             \* line 150 shuffles the list object held by captions_dict
             /\ captions_dict' = IF GateCaptions(outputlist)
                                    THEN [captions_dict EXCEPT ![key] = captions]
                                    ELSE captions_dict
             /\ result' =
                   [called |-> TRUE,
                    index |-> index,
                    err |-> IF ReadsUnboundImage(outputlist) THEN "UnboundLocalError"
                            ELSE IF ~(outputlist \subseteq BoundLocals(outputlist)) THEN "KeyError"
                            ELSE "none",
                    keys |-> IF ReadsUnboundImage(outputlist)
                                \/ ~(outputlist \subseteq BoundLocals(outputlist))
                             THEN {} ELSE outputlist,
                    original_captions |->
                        IF "original_captions" \in outputlist
                           /\ ~ReadsUnboundImage(outputlist)
                           /\ outputlist \subseteq BoundLocals(outputlist)
                        THEN Join(captions) ELSE <<>>]
    /\ ncalls' = ncalls + 1
    /\ UNCHANGED <<pixVars, args, lists, pc, ci, li, i>>

GetItem == \E index \in 0..(DatasetLen - 1) : GetItemIndexError(index) \/ GetItemBody(index)

-----------------------------------------------------------------------------

Next ==
    \/ AssertOutputs
    \/ AssertOutputsFails
    \/ LoadCaptions
    \/ OpenCategory
    \/ AssertCategoryFails
    \/ LimitedBreak
    \/ LimitedSkip
    \/ LimitedAppend
    \/ FullSkip
    \/ FullAppend
    \/ EndOfFile
    \/ Finish
    \/ GetItem

Spec == Init /\ [][Next]_vars

-----------------------------------------------------------------------------
(* Claims about the index builder and the field contract, checked under Spec *)

Built == pc = "ready"

\* The number of positions of s holding x
Count(s, x) == Cardinality({k \in 1..Len(s) : s[k] = x})

\* The lines of a pairing file whose garment identifier is a caption key
Matching(file) == {n \in 1..Len(file) : SplitFirst(file[n][2]) \in DOMAIN captions_dict}

Min(x, y) == IF x <= y THEN x ELSE y

\* C1: whenever __getitem__ has been called on a valid index of a dataset whose
\* field set the constructor accepted, and the four index lookups succeeded, the
\* call returned a mapping whose keys are exactly the requested fields.
C1_ExactFieldSet ==
    (result.called /\ result.err # "IndexError")
        => (result.err = "none" /\ result.keys = outputlist)

\* The lines of a pairing file that are kept, in file order
Kept(file) == SelectSeq(file, LAMBDA l : SplitFirst(l[2]) \in DOMAIN captions_dict)

\* The index entries of category c, in index order
Entries(c) ==
    SelectSeq([k \in 1..Len(c_names) |-> <<im_names[k], c_names[k], dataroot_names[k]>>],
              LAMBDA e : e[3] = c)

\* C2: im_names, c_names and dataroot_names have the same length; the garment
\* identifier of every c_name is a key of captions_dict; the entries of a
\* category are, position by position, the first kept lines of its pairing file
\* (image name and garment name of the same line); a pairing line whose garment
\* identifier is no key is at no position.
C2_IndexAligned ==
    /\ Len(im_names) = Len(c_names)
    /\ Len(dataroot_names) = Len(c_names)
    /\ \A k \in 1..Len(c_names) :
          /\ dataroot_names[k] \in Range(category)
          /\ SplitFirst(c_names[k]) \in DOMAIN captions_dict
    /\ \A c \in Range(category) :
          /\ Len(Entries(c)) <= Len(Kept(pairs[c]))
          /\ \A n \in 1..Len(Entries(c)) :
                Entries(c)[n] = <<Kept(pairs[c])[n][1], Kept(pairs[c])[n][2], c>>
    /\ Built =>
          \A c \in Range(category) : \A n \in 1..Len(pairs[c]) :
              n \notin Matching(pairs[c]) =>
                  \A k \in 1..Len(c_names) :
                      <<im_names[k], c_names[k], dataroot_names[k]>>
                          # <<pairs[c][n][1], pairs[c][n][2], c>>

\* C2 witness: a built index of at least two entries, from pairing files one of
\* whose lines names a garment without captions.
C2_Witness ==
    /\ Built
    /\ Len(c_names) >= 2
    /\ \E c \in Range(category) : \E n \in 1..Len(pairs[c]) : n \notin Matching(pairs[c])

\* C3: with a positive num_test_image, every category contributes
\* min(num_test_image, number of matching lines of its pairing file) entries.
C3_LimitPerCategory ==
    (Built /\ num_test_image > 0) =>
        \A c \in Range(category) :
            Count(dataroot_names, c) = Min(num_test_image, Cardinality(Matching(pairs[c])))

\* C4: once the dataset is built, no step changes captions_dict.
C4_CaptionsImmutable == [][Built => captions_dict' = captions_dict]_vars

\* C5: right after the merge, a garment id of the coarse table has its coarse
\* entry; any other id is a key exactly when its fine entry has at least 3
\* captions, and then has its fine entry.
C5_MergeRule ==
    (pc \in {"category", "lines", "ready"} /\ ncalls = 0) =>
        \A id \in DOMAIN fine_json \cup DOMAIN coarse_json \cup DOMAIN captions_dict :
            IF id \in DOMAIN coarse_json
            THEN id \in DOMAIN captions_dict /\ captions_dict[id] = coarse_json[id]
            ELSE /\ id \in DOMAIN captions_dict
                    <=> (id \in DOMAIN fine_json /\ Len(fine_json[id]) >= 3)
                 /\ id \in DOMAIN captions_dict => captions_dict[id] = fine_json[id]

\* C5 witness: a built table from a fine table holding an entry of 3 captions
\* that the coarse table overrides, and an entry of 2 captions that it does not.
C5_Witness ==
    /\ Built
    /\ ncalls = 0
    /\ \E x, y \in DOMAIN fine_json :
          /\ Len(fine_json[x]) >= 3 /\ x \in DOMAIN coarse_json
          /\ Len(fine_json[y]) < 3 /\ y \notin DOMAIN coarse_json
          /\ y \notin DOMAIN captions_dict

\* C10: once built, the four per-sample lists have the length of the dataset,
\* and no __getitem__ call on an index below that length fails on a lookup.
C10_AllListsCoverLen ==
    Built =>
        /\ Len(im_names) = DatasetLen
        /\ Len(dataroot_names) = DatasetLen
        /\ Len(multimodal_data_path_names) = DatasetLen
        /\ result.called => result.err # "IndexError"

-----------------------------------------------------------------------------
(* Exact fractions <<n, d>>, d > 0, in lowest terms *)

RECURSIVE GCD(_, _)
GCD(x, y) == IF y = 0 THEN x ELSE GCD(y, x % y)

Abs(x) == IF x < 0 THEN -x ELSE x

Frac(n, d) == LET g == GCD(Abs(n), d) IN <<n \div g, d \div g>>

Whole(k) == <<k, 1>>

FMul(f, g) == Frac(f[1] * g[1], f[2] * g[2])

FAdd(f, g) == Frac(f[1] * g[2] + g[1] * f[2], f[2] * g[2])

FSub(f, g) == Frac(f[1] * g[2] - g[1] * f[2], f[2] * g[2])

FGt(f, g) == f[1] * g[2] > g[1] * f[2]

FLe(f, g) == f[1] * g[2] <= g[1] * f[2]

\* astype(np.uint16) of a value in 0..65535: the fraction part is dropped.
Trunc(f) == f[1] \div f[2]

-----------------------------------------------------------------------------
(* The keypoint block of __getitem__, lines 267-359 *)

\* The reference frame of the keypoints
RefWidth == 384

RefHeight == 512

\* sigma of kpoint_to_heatmap, line 305
Sigma == 9

\* The output sizes (height, width): three of ratio 4:3 and a square one.
Sizes == {<<512, 384>>, <<256, 192>>, <<1024, 768>>, <<512, 512>>}

\* The raw keypoints a file holds: (1, 1) is rescaled to (0.5, 0.5) at 256 x 192,
\* to (1, 1) at 512 x 384 and to (2, 2) at 1024 x 768.
KeyPts == {<<1, 1>>, <<384, 512>>}

\* The keypoints the model follows: Python indices 0..7
NumPoints == 8

\* pose_data[j] for a Python index j
Kp(j) == pose_data[j + 1]

InitPose ==
    /\ \E size \in Sizes : height = size[1] /\ width = size[2]
    /\ radius = 5
    /\ item_category \in AllowedCategories
    /\ pose_data \in [1..NumPoints -> KeyPts]
    /\ pose_map = [k \in 1..NumPoints |-> {}]            \* line 276
    /\ im_pose = {}                                        \* line 278
    /\ neck = {}                                           \* line 280
    /\ im_arms = <<>>
    /\ points = <<>>
    /\ ppc = "start"

\* The dataset is built and is not stepped while one extraction is followed.
IdleDataset ==
    /\ phase = "test"
    /\ num_test_image = 0
    /\ category = <<"dresses", "upper_body", "lower_body">>
    /\ outputlist = DefaultOutputlist
    /\ fine_json = [k \in {id_a} |-> <<"x", "y", "z">>]
    /\ coarse_json = EmptyDict
    /\ pairs = [c \in DOMAIN NoPairs |-> IF c \in AllowedCategories THEN <<Line1>> ELSE <<>>]
    /\ captions_dict = fine_json
    /\ im_names = <<Line1[1], Line1[1], Line1[1]>>
    /\ c_names = <<a_1, a_1, a_1>>
    /\ dataroot_names = category
    /\ multimodal_data_path_names = category
    /\ pc = "extract"
    /\ ci = 4
    /\ li = 2
    /\ i = 0
    /\ ncalls = 0
    /\ result = NoResult

\* line 277
r == FMul(Whole(radius), Frac(height, RefHeight))

\* lines 285-286: np.multiply(pose_data[i, 0], self.width / 384.0) and
\* np.multiply(pose_data[i, 1], self.height / 512.0)
StampPoint(p) == <<FMul(Whole(p[1]), Frac(width, RefWidth)),
                   FMul(Whole(p[2]), Frac(height, RefHeight))>>

\* line 287
Stamped(p) == FGt(StampPoint(p)[1], Whole(1)) /\ FGt(StampPoint(p)[2], Whole(1))

\* The box (x0, y0, x1, y1) of lines 288-289 (k = 1) and 291 (k = 4)
Box(pt, k) ==
    LET e == FMul(Whole(k), r)
    IN  <<FSub(pt[1], e), FSub(pt[2], e), FAdd(pt[1], e), FAdd(pt[2], e)>>

\* lines 282-294: the loop over the keypoints
StampKeypoints ==
    /\ ppc = "start"
    /\ pose_map' = [k \in 1..NumPoints |->
                      IF Stamped(pose_data[k]) THEN {Box(StampPoint(pose_data[k]), 1)} ELSE {}]
    /\ im_pose' = {Box(StampPoint(pose_data[k]), 1) : k \in {n \in 1..NumPoints : Stamped(pose_data[n])}}
    /\ neck' = {Box(StampPoint(Kp(j)), 4) : j \in {n \in {2, 5} : Stamped(Kp(n))}}
    /\ ppc' = "stamped"
    /\ UNCHANGED <<dsVars, sketchVars, compVars, maskVars, neckVars, height, width, radius, item_category, pose_data, im_arms, points>>

\* lines 298-303: ux = x / 384.0, uy = y / 512.0, px = ux * width, py = uy * height
HeatPoint(p) == <<FMul(Frac(p[1], RefWidth), Whole(width)),
                  FMul(Frac(p[2], RefHeight), Whole(height))>>

\* lines 296-307: pose_map is replaced by the stack of kpoint_to_heatmap's
\* results, one call per keypoint; a channel is the call that made it.
BuildHeatmaps ==
    /\ ppc = "stamped"
    /\ pose_map' = [k \in 1..NumPoints |->
                      [kpoint |-> HeatPoint(pose_data[k]), shape |-> <<height, width>>,
                       sigma |-> Sigma]]
    /\ ppc' = "heat"
    /\ UNCHANGED <<dsVars, sketchVars, compVars, maskVars, neckVars, height, width, radius, item_category, pose_data, im_pose, neck,
                   im_arms, points>>

\* lines 317-322 and 358-359: np.multiply(tuple(kp[:2]), self.height / 512.0)
ScaleByHeight(p) == <<FMul(Whole(p[1]), Frac(height, RefHeight)),
                      FMul(Whole(p[2]), Frac(height, RefHeight))>>

\* the tests of lines 323, 324, 332, 333 on a point of lines 319-322
Missing(q) == FLe(q[1], Whole(1)) /\ FLe(q[2], Whole(1))

\* lines 323-344: the keypoints (Python indices) the line goes through.
\* 2, 5 shoulders; 3, 6 elbows; 4, 7 wrists; right first.
ArmJoints ==
    LET sr == 2
        sl == 5
        er == 3
        el == 6
        wr == 4
        wl == 7
        miss(j) == Missing(ScaleByHeight(Kp(j)))
    IN  IF miss(wr)
        THEN IF miss(er) THEN <<wl, el, sl, sr>>
                         ELSE <<wl, el, sl, sr, er>>
        ELSE IF miss(wl)
        THEN IF miss(el) THEN <<sl, sr, er, wr>>
                         ELSE <<el, sl, sr, er, wr>>
        ELSE <<wl, el, sl, sr, er, wr>>

\* np.concatenate(...).astype(np.uint16).tolist(), as <<x, y>> vertices
Vertex(q) == <<Trunc(q[1]), Trunc(q[2])>>

\* lines 312-344
DrawArms ==
    /\ ppc = "heat"
    /\ im_arms' = [n \in 1..Len(ArmJoints) |-> Vertex(ScaleByHeight(Kp(ArmJoints[n])))]
    /\ ppc' = "arms"
    /\ UNCHANGED <<dsVars, sketchVars, compVars, maskVars, neckVars, height, width, radius, item_category, pose_data, pose_map, im_pose,
                   neck, points>>

\* lines 354-359: the two shoulder points of the neck line
NeckPoints ==
    /\ ppc = "arms"
    /\ item_category = "dresses" \/ item_category = "upper_body"
    /\ points' = <<ScaleByHeight(Kp(2)), ScaleByHeight(Kp(5))>>
    /\ ppc' = "done"
    /\ UNCHANGED <<dsVars, sketchVars, compVars, maskVars, neckVars, height, width, radius, item_category, pose_data, pose_map, im_pose,
                   neck, im_arms>>

\* line 354, the test fails: lower_body
NoNeckPoints ==
    /\ ppc = "arms"
    /\ ~(item_category = "dresses" \/ item_category = "upper_body")
    /\ ppc' = "done"
    /\ UNCHANGED <<dsVars, sketchVars, compVars, maskVars, neckVars, height, width, radius, item_category, pose_data, pose_map, im_pose,
                   neck, im_arms, points>>

NextPose ==
    \/ StampKeypoints
    \/ BuildHeatmaps
    \/ DrawArms
    \/ NeckPoints
    \/ NoNeckPoints

InitExtract == InitPose /\ IdleDataset /\ IdleSketch /\ IdleCompose /\ IdleMask /\ IdleNeck

SpecPose == InitExtract /\ [][NextPose]_vars

-----------------------------------------------------------------------------
(* Claims about the keypoints, checked under SpecPose *)

\* The rescaling the claims state: (x * width / 384, y * height / 512)
Rescaled(p) == <<Frac(p[1] * width, RefWidth), Frac(p[2] * height, RefHeight)>>

\* "not detected": both rescaled coordinates are at most 1
NotDetected(p) == FLe(Rescaled(p)[1], Whole(1)) /\ FLe(Rescaled(p)[2], Whole(1))

\* The keypoints an arm line may go through: the shoulders (2, 5), and the
\* elbows (3, 6) and wrists (4, 7) that are detected.
DetectedArmJoints == {2, 5} \cup {j \in {3, 6, 4, 7} : ~NotDetected(Kp(j))}

\* C6 (what the code under src decides of it): a keypoint that is not detected
\* leaves its stamp channel empty and adds no rectangle to im_pose, and every
\* vertex of the arm line is a shoulder or a detected wrist or elbow.
C6_UndetectedNeverDrawn ==
    /\ ppc = "stamped" =>
          \A k \in 1..NumPoints :
              NotDetected(pose_data[k]) =>
                  /\ pose_map[k] = {}
                  /\ Box(StampPoint(pose_data[k]), 1) \notin im_pose
    /\ ppc \in {"arms", "done"} =>
          \A n \in 1..Len(im_arms) :
              \E j \in DetectedArmJoints : im_arms[n] = Vertex(ScaleByHeight(Kp(j)))

\* C7: every use of a keypoint works on (x * width / 384, y * height / 512):
\* the stamped box, the point handed to kpoint_to_heatmap, the vertices of the
\* arm line and the two points of the neck line.
C7_RescaledEverywhere ==
    /\ ppc = "stamped" =>
          \A k \in 1..NumPoints :
              pose_map[k] # {} => pose_map[k] = {Box(Rescaled(pose_data[k]), 1)}
    /\ ppc \in {"heat", "arms", "done"} =>
          \A k \in 1..NumPoints : pose_map[k].kpoint = Rescaled(pose_data[k])
    /\ ppc \in {"arms", "done"} =>
          im_arms = [n \in 1..Len(ArmJoints) |-> Vertex(Rescaled(Kp(ArmJoints[n])))]
    /\ (ppc = "done" /\ points # <<>>) =>
          points = <<Rescaled(Kp(2)), Rescaled(Kp(5))>>

-----------------------------------------------------------------------------
(* The sketch block of __getitem__, lines 144 and 179-185 *)

\* The pixel values a sketch holds (mode L, 0..255)
PixVals == {0, 1, 128, 254, 255}

\* The pixels the model follows
SketchPixels == 3

ThresholdRanges == {<<0, 0>>, <<255, 255>>, <<126, 128>>, <<0, 1>>}

InitSketch ==
    /\ sketch_threshold_range \in ThresholdRanges
    /\ sketch_threshold = 0
    /\ sketch \in [1..SketchPixels -> PixVals]
    /\ im_sketch = <<>>
    /\ spc = "start"

\* line 144: random.randint(lo, hi), both ends included
DrawThreshold ==
    /\ spc = "start"
    /\ sketch_threshold' \in sketch_threshold_range[1]..sketch_threshold_range[2]
    /\ spc' = "drawn"
    /\ UNCHANGED <<dsVars, poseVars, compVars, maskVars, neckVars, sketch_threshold_range, sketch, im_sketch>>

\* line 180: ImageOps.invert on an 8-bit pixel
Invert(p) == 255 - p

\* A variant of the lambda below that also maps p = threshold to 255.
BinarizeInclusive(p, threshold) == IF p >= threshold THEN 255 ELSE 0

\* line 182: lambda p: 255 if p > sketch_threshold else 0
Binarize(p, threshold) == IF p > threshold THEN 255 ELSE 0

\* line 184: to_tensor scales an 8-bit pixel to [0, 1]
ToTensor(p) == Frac(p, 255)

\* line 185
OneMinus(f) == FSub(Whole(1), f)

\* lines 180-185
SketchPipeline ==
    /\ spc = "drawn"
    /\ im_sketch' = [k \in 1..Len(sketch) |->
                       OneMinus(ToTensor(Binarize(Invert(sketch[k]), sketch_threshold)))]
    /\ spc' = "done"
    /\ UNCHANGED <<dsVars, poseVars, compVars, maskVars, neckVars, sketch_threshold_range, sketch_threshold, sketch>>

NextSketch ==
    \/ DrawThreshold
    \/ SketchPipeline

InitSketchSpec == InitSketch /\ IdleDataset /\ IdlePose /\ IdleCompose /\ IdleMask /\ IdleNeck

SpecSketch == InitSketchSpec /\ [][NextSketch]_vars

-----------------------------------------------------------------------------
(* Claims about the sketch, checked under SpecSketch *)

Black == Whole(0)

White == Whole(1)

\* C8 as stated: threshold 0 gives an all-black sketch, threshold 255 an
\* all-white one, whatever the input.
C8_ExtremeThresholds ==
    spc = "done" =>
        /\ sketch_threshold = 0 => \A k \in 1..Len(im_sketch) : im_sketch[k] = Black
        /\ sketch_threshold = 255 => \A k \in 1..Len(im_sketch) : im_sketch[k] = White

\* C8 amended: with threshold 0 a pixel of the result is black exactly when the
\* input pixel is below 255, and white when it is 255; with threshold 255 every
\* pixel of the result is white.
C8_ExtremeThresholdsAmended ==
    spc = "done" =>
        /\ Len(im_sketch) = Len(sketch)
        /\ sketch_threshold = 0 =>
              \A k \in 1..Len(sketch) :
                  im_sketch[k] = IF sketch[k] < 255 THEN Black ELSE White
        /\ sketch_threshold = 255 => \A k \in 1..Len(sketch) : im_sketch[k] = White

\* C8 witness: the pipeline has run with threshold 0 on a sketch holding a pure
\* white pixel and a darker one.
C8_Witness ==
    /\ spc = "done"
    /\ sketch_threshold = 0
    /\ \E k, m \in 1..Len(sketch) : sketch[k] = 255 /\ sketch[m] < 255

-----------------------------------------------------------------------------
(* The compositor, image_composition.py *)

\* The pixels the model follows
ComposePixels == 2

\* Values of a ground-truth tensor
GtVals == {<<-1, 1>>, <<1, 2>>}

\* Values of a generated PIL image (8 bit) and of a generated tensor
FakeBytes == {0, 128, 255}

FakeVals == {<<0, 1>>, <<1, 4>>, <<1, 1>>}

\* Codes of a label map
Labels == {0, 1, 2, 4, 13, 3}

InitComposeImg ==
    /\ variant = "compose_img"
    /\ gt_img \in [1..ComposePixels -> GtVals]
    /\ fake_img \in [1..ComposePixels -> FakeBytes]
    /\ im_parse \in [1..ComposePixels -> Labels]
    /\ im_head = <<>>

InitComposeDresscode ==
    /\ variant = "compose_img_dresscode"
    /\ gt_img \in [1..ComposePixels -> GtVals]
    /\ fake_img \in [1..ComposePixels -> FakeVals]
    /\ im_parse = <<>>
    /\ im_head \in [1..ComposePixels -> BOOLEAN]

InitCompose ==
    /\ InitComposeImg \/ InitComposeDresscode
    /\ composed = <<>>
    /\ cpc = "start"

\* tensor * boolean tensor: the value where the mask is True, 0 elsewhere
TimesMask(f, b) == FMul(f, Whole(IF b THEN 1 ELSE 0))

\* The head grouping of dresscode.py lines 196-199, codes 1, 2, 3, 11
SegHeadAsParseHead(label) == (label = 1 \/ label = 2) \/ label = 3 \/ label = 11

\* lines 12-14
SegHead(label) == ((label = 1 \/ label = 2) \/ label = 4) \/ label = 13

\* lines 10-30
ComposeImg ==
    /\ cpc = "start"
    /\ variant = "compose_img"
    /\ composed' = [k \in 1..Len(gt_img) |->
                      LET seg_head == SegHead(im_parse[k])
                          true_head == TimesMask(gt_img[k], seg_head)
                          generated_body == TimesMask(Frac(fake_img[k], 255), ~seg_head)
                      IN  FAdd(true_head, generated_body)]
    /\ cpc' = "done"
    /\ UNCHANGED <<dsVars, poseVars, sketchVars, maskVars, neckVars, variant, gt_img, fake_img, im_parse, im_head>>

\* lines 32-38
ComposeImgDresscode ==
    /\ cpc = "start"
    /\ variant = "compose_img_dresscode"
    /\ composed' = [k \in 1..Len(gt_img) |->
                      LET seg_head == im_head[k]
                          true_head == TimesMask(gt_img[k], seg_head)
                          generated_body == TimesMask(fake_img[k], ~seg_head)
                      IN  FAdd(true_head, generated_body)]
    /\ cpc' = "done"
    /\ UNCHANGED <<dsVars, poseVars, sketchVars, maskVars, neckVars, variant, gt_img, fake_img, im_parse, im_head>>

NextCompose ==
    \/ ComposeImg
    \/ ComposeImgDresscode

InitComposeSpec == InitCompose /\ IdleDataset /\ IdlePose /\ IdleSketch /\ IdleMask /\ IdleNeck

SpecCompose == InitComposeSpec /\ [][NextCompose]_vars

-----------------------------------------------------------------------------
(* Claims about the compositor, checked under SpecCompose *)

\* C9: a call leaves its three inputs as they were and returns, at every pixel,
\* the ground-truth value where the pixel is head (label 1, 2, 4 or 13 for
\* compose_img, a true mask for compose_img_dresscode) and the generated value
\* (the byte over 255 for compose_img) elsewhere.
C9_HeadFromTruthBodyFromFake ==
    [][cpc' = "done" =>
          /\ <<gt_img', fake_img', im_parse', im_head'>> = <<gt_img, fake_img, im_parse, im_head>>
          /\ Len(composed') = Len(gt_img)
          /\ \A k \in 1..Len(gt_img) :
                composed'[k] =
                    IF variant = "compose_img"
                    THEN IF im_parse[k] \in {1, 2, 4, 13}
                         THEN gt_img[k] ELSE Frac(fake_img[k], 255)
                    ELSE IF im_head[k] THEN gt_img[k] ELSE fake_img[k]]_vars

\* C9 witness: compose_img has returned for a label map holding a head pixel
\* of code 13 and a pixel of code 3, which is not head.
C9_Witness ==
    /\ cpc = "done"
    /\ variant = "compose_img"
    /\ \E k, m \in 1..Len(im_parse) : im_parse[k] = 13 /\ im_parse[m] = 3
    /\ Len(composed) = Len(gt_img)


\* ---------------------------------------------------------------------------
\* __getitem__, lines 374-392: the masks of one extraction.  An array is a
\* function over the pixels <<row, column>> of a MaskRows x MaskCols picture, a
\* mask holds 0 or 1.
\* ---------------------------------------------------------------------------
MaskRows == 2
MaskCols == 3

Pixels == (0 .. MaskRows - 1) \X (0 .. MaskCols - 1)

Channels == 0 .. 2

\* The three masks line 374 reads, at one pixel: parser_mask_changeable and
\* parser_mask_fixed as lines 229-241, 349 and 367 leave them, and the dilated
\* parse_mask of line 373.  A pixel is fixed, or changeable and left alone by the
\* dilated garment, or changeable and covered by it.
PixelKinds ==
    { [changeable |-> 0, fixed |-> 1, dilated |-> 0],
      [changeable |-> 1, fixed |-> 0, dilated |-> 0],
      [changeable |-> 1, fixed |-> 0, dilated |-> 1] }

\* Line 169: the normalised picture, three channels with values in [-1, 1].
Images ==
    { [c \in Channels |-> [p \in Pixels |-> IF (c + p[1] + p[2]) % 2 = k THEN 1 ELSE -1]] :
        k \in 0 .. 1 }

InitMask ==
    /\ image \in Images
    /\ \E kind \in [Pixels -> PixelKinds] :
        /\ parser_mask_changeable = [p \in Pixels |-> kind[p].changeable]
        /\ parser_mask_fixed = [p \in Pixels |-> kind[p].fixed]
        /\ parse_mask = [p \in Pixels |-> kind[p].dilated]
    /\ parse_mask_total = <<>>
    /\ inpaint_mask = <<>>
    /\ im_mask = <<>>
    /\ mpc = "start"

InitMaskSpec == InitMask /\ IdleDataset /\ IdlePose /\ IdleSketch /\ IdleCompose /\ IdleNeck

\* np.logical_and, np.logical_or, np.logical_not on 0/1 values.
logical_and(a, b) == IF a # 0 /\ b # 0 THEN 1 ELSE 0

logical_or(a, b) == IF a # 0 \/ b # 0 THEN 1 ELSE 0

logical_not(a) == IF a # 0 THEN 0 ELSE 1

\* Lines 374-377.
ComposeMasks ==
    /\ mpc = "start"
    /\ LET pm == [p \in Pixels |->
                    logical_and(parser_mask_changeable[p], logical_not(parse_mask[p]))]
           total == [p \in Pixels |-> logical_or(pm[p], parser_mask_fixed[p])]
       IN /\ parse_mask' = pm
          /\ parse_mask_total' = total
          /\ im_mask' = [c \in Channels |-> [p \in Pixels |-> image[c][p] * total[p]]]
          /\ inpaint_mask' = [p \in Pixels |-> 1 - total[p]]
    /\ mpc' = "masked"
    /\ UNCHANGED <<dsVars, poseVars, sketchVars, compVars, neckVars, image, parser_mask_changeable,
                   parser_mask_fixed>>

NonZero(m) == {p \in Pixels : m[p] # 0}

\* torchvision's masks_to_boxes on one mask, line 380: <<xmin, ymin, xmax, ymax>>
\* of the nonzero pixels (x the column, y the row).
MasksToBoxes(m) ==
    LET ys == {p[1] : p \in NonZero(m)}
        xs == {p[2] : p \in NonZero(m)}
    IN <<CHOOSE x \in xs : \A z \in xs : x <= z,
         CHOOSE y \in ys : \A z \in ys : y <= z,
         CHOOSE x \in xs : \A z \in xs : x >= z,
         CHOOSE y \in ys : \A z \in ys : y >= z>>

\* A slice that forgets the "+ 1" of its upper ends.
BoxSliceExclusive(xmin, ymin, xmax, ymax) ==
    {p \in Pixels : ymin <= p[1] /\ p[1] < ymax /\ xmin <= p[2] /\ p[2] < xmax}

\* Lines 387-389: the pixels of [ymin:ymax + 1, xmin:xmax + 1].
BoxSlice(xmin, ymin, xmax, ymax) ==
    {p \in Pixels : ymin <= p[1] /\ p[1] < ymax + 1 /\ xmin <= p[2] /\ p[2] < xmax + 1}

\* Lines 380-392.  The mask becomes a one-channel stack (unsqueeze), which
\* repeat(3, 1, 1) copies into the three channels.
BoxAdjust ==
    /\ mpc = "masked"
    /\ NonZero(inpaint_mask) # {}
    /\ LET bboxes == MasksToBoxes(inpaint_mask)
           box == BoxSlice(bboxes[1], bboxes[2], bboxes[3], bboxes[4])
           adjusted == [p \in Pixels |->
                          IF p \in box
                          THEN logical_and(1, logical_not(parser_mask_fixed[p]))
                          ELSE inpaint_mask[p]]
           repeated == [c \in Channels |-> adjusted]
       IN /\ inpaint_mask' = <<adjusted>>
          /\ im_mask' = [c \in Channels |->
                           [p \in Pixels |-> image[c][p] * logical_not(repeated[c][p])]]
    /\ mpc' = "done"
    /\ UNCHANGED <<dsVars, poseVars, sketchVars, compVars, neckVars, image, parser_mask_changeable,
                   parser_mask_fixed, parse_mask, parse_mask_total>>

\* Line 380 on a mask without a nonzero pixel: the minimum of no coordinate
\* raises, the extraction ends there.
BoxFails ==
    /\ mpc = "masked"
    /\ NonZero(inpaint_mask) = {}
    /\ mpc' = "failed"
    /\ UNCHANGED <<dsVars, poseVars, sketchVars, compVars, neckVars, image, parser_mask_changeable,
                   parser_mask_fixed, parse_mask, parse_mask_total, inpaint_mask, im_mask>>

NextMask == ComposeMasks \/ BoxAdjust \/ BoxFails

SpecMask == InitMaskSpec /\ [][NextMask]_vars

\* The mask before the adjustment: the complement of parse_mask_total.
PreAdjust(p) == IF parse_mask_total[p] = 0 THEN 1 ELSE 0

\* p lies in the tight bounding box of the nonzero pixels of the mask before
\* the adjustment: between two of them in its row and between two in its column.
InTightBox(p) ==
    /\ \E q \in Pixels : PreAdjust(q) = 1 /\ q[1] <= p[1]
    /\ \E q \in Pixels : PreAdjust(q) = 1 /\ q[1] >= p[1]
    /\ \E q \in Pixels : PreAdjust(q) = 1 /\ q[2] <= p[2]
    /\ \E q \in Pixels : PreAdjust(q) = 1 /\ q[2] >= p[2]

\* C11: after line 377 inpaint_mask is the complement of parse_mask_total; after
\* the bounding-box adjustment the mask is 1 inside the tight bounding box B of
\* that complement exactly at the pixels outside parser_mask_fixed and keeps
\* its value outside B, so it contains the mask it came from and no fixed
\* pixel; and im_mask is, in each of the three channels, the image where the
\* final mask is 0 and zero where it is 1.
C11_BoxAdjustment ==
    /\ mpc = "masked" => \A p \in Pixels : inpaint_mask[p] = PreAdjust(p)
    /\ mpc = "done" =>
        /\ DOMAIN im_mask = 0 .. 2
        /\ \A p \in Pixels :
            /\ InTightBox(p) => (inpaint_mask[1][p] = 1 <=> parser_mask_fixed[p] = 0)
            /\ ~InTightBox(p) => inpaint_mask[1][p] = PreAdjust(p)
            /\ PreAdjust(p) = 1 => inpaint_mask[1][p] = 1
            /\ parser_mask_fixed[p] # 0 => inpaint_mask[1][p] = 0
            /\ \A c \in 0 .. 2 :
                im_mask[c][p] = IF inpaint_mask[1][p] = 0 THEN image[c][p] ELSE 0

\* The adjustment ran on a mask whose box holds a pixel it turns on, a fixed
\* pixel it leaves off, and leaves a pixel outside.
C11_Witness ==
    /\ mpc = "done"
    /\ \E p \in Pixels : InTightBox(p) /\ PreAdjust(p) = 0 /\ inpaint_mask[1][p] = 1
    /\ \E p \in Pixels : InTightBox(p) /\ parser_mask_fixed[p] = 1
    /\ \E p \in Pixels : ~InTightBox(p)


\* ---------------------------------------------------------------------------
\* __getitem__, lines 352-365: the neck cut, on a picture of NeckRows x
\* NeckCols pixels <<row, column>>.
\* ---------------------------------------------------------------------------
NeckRows == 8
NeckCols == 6

\* parse_array.shape, after the resize of line 191: (height, width)
Grid == (0 .. height - 1) \X (0 .. width - 1)

\* The raw positions a keypoint file gives a shoulder.
ShoulderPts == {<<0, 0>>, <<64, 0>>, <<64, 64>>, <<64, 256>>, <<256, 128>>, <<256, 256>>}

\* parse_head of line 244: every pixel, the upper rows, a chessboard.
HeadPatterns ==
    { [p \in (0 .. NeckRows - 1) \X (0 .. NeckCols - 1) |-> 1],
      [p \in (0 .. NeckRows - 1) \X (0 .. NeckCols - 1) |-> IF p[1] < 3 THEN 1 ELSE 0],
      [p \in (0 .. NeckRows - 1) \X (0 .. NeckCols - 1) |-> (p[1] + p[2]) % 2] }

InitNeck ==
    /\ height = NeckRows
    /\ width = NeckCols
    /\ radius = 5
    /\ item_category \in AllowedCategories
    /\ \E sr \in ShoulderPts, sl \in ShoulderPts :
        pose_data = [k \in 1..NumPoints |-> IF k = 3 THEN sr ELSE IF k = 6 THEN sl ELSE <<1, 1>>]
    /\ pose_map = <<>>
    /\ im_pose = {}
    /\ neck = {}
    /\ im_arms = <<>>
    /\ points = <<>>
    /\ ppc = "idle"
    /\ parse_head \in HeadPatterns
    /\ parse_head_2 = <<>>
    /\ lstsq = <<>>
    /\ npc = "start"

InitNeckSpec == InitNeck /\ IdleDataset /\ IdleSketch /\ IdleCompose /\ IdleMask

\* f / g for g # 0
FDiv(f, g) ==
    IF g[1] > 0 THEN Frac(f[1] * g[2], f[2] * g[1])
                ELSE Frac((0 - f[1]) * g[2], f[2] * (0 - g[1]))

\* Line 362: np.linalg.lstsq of [[x1, 1], [x2, 1]] against (y1, y2), as <<m, c>>.
\* Two different x give the line through the two points; equal x leave a matrix
\* of rank 1, and the answer is the solution of least norm of x*m + c = mean(y).
Lstsq(pts) ==
    LET x1 == pts[1][1]
        y1 == pts[1][2]
        x2 == pts[2][1]
        y2 == pts[2][2]
    IN  IF x1 # x2
        THEN LET slope == FDiv(FSub(y2, y1), FSub(x2, x1))
             IN <<slope, FSub(y1, FMul(slope, x1))>>
        ELSE LET mean == FDiv(FAdd(y1, y2), Whole(2))
                 norm == FAdd(FMul(x1, x1), Whole(1))
             IN <<FDiv(FMul(mean, x1), norm), FDiv(mean, norm)>>

\* int() of a float: the fraction part is dropped, towards zero.
IntOf(f) == IF f[1] >= 0 THEN f[1] \div f[2] ELSE 0 - ((0 - f[1]) \div f[2])

\* The first row of the slice [k:] of n rows: a negative k counts from the end.
SliceStart(k, n) ==
    IF k >= 0 THEN (IF k > n THEN n ELSE k)
              ELSE (IF n + k > 0 THEN n + k ELSE 0)

\* Lines 363-365 for one column: the integer of line 365.
CutIndex(col) ==
    LET y == FAdd(FMul(Whole(col), lstsq'[1]), lstsq'[2])
    IN IntOf(FSub(y, FMul(Whole(20), Frac(height, RefHeight))))

\* Lines 353-365, the test of line 354 holds.
NeckCut ==
    /\ npc = "start"
    /\ item_category = "dresses" \/ item_category = "upper_body"
    /\ points' = <<ScaleByHeight(Kp(2)), ScaleByHeight(Kp(5))>>
    /\ lstsq' = Lstsq(points')
    /\ parse_head_2' = [p \in Grid |->
                          IF p[1] >= SliceStart(CutIndex(p[2]), height) THEN 0
                                                                        ELSE parse_head[p]]
    /\ npc' = "done"
    /\ UNCHANGED <<dsVars, sketchVars, compVars, maskVars, height, width, radius, item_category,
                   pose_data, pose_map, im_pose, neck, im_arms, ppc, parse_head>>

\* Lines 353-354, the test fails: lower_body keeps the clone.
NoNeckCut ==
    /\ npc = "start"
    /\ ~(item_category = "dresses" \/ item_category = "upper_body")
    /\ parse_head_2' = parse_head
    /\ npc' = "done"
    /\ UNCHANGED <<dsVars, poseVars, sketchVars, compVars, maskVars, parse_head, lstsq>>

NextNeck == NeckCut \/ NoNeckCut

SpecNeck == InitNeckSpec /\ [][NextNeck]_vars


\* The y of the line through the two shoulder points at a column, raised by
\* 20 * height / 512; the shoulders have different x.
ShoulderCutRow(col) ==
    LET x1 == points[1][1]
        y1 == points[1][2]
        x2 == points[2][1]
        y2 == points[2][2]
        y == FAdd(y1, FDiv(FMul(FSub(y2, y1), FSub(Whole(col), x1)), FSub(x2, x1)))
    IN FSub(y, FMul(Whole(20), Frac(height, RefHeight)))

\* C12: after the neck cut of a dresses or upper_body item, in every column
\* parse_head_2 is 0 at every row at or below the cut row (the shoulder line at
\* that column, raised by 20 * height / 512) and equals parse_head at every row
\* wholly above it, a cut row above the top edge zeroing the whole column; for
\* lower_body parse_head_2 equals parse_head.  Stated where the two shoulders
\* have different x, so that the line is defined; the pixel row that holds a
\* fractional cut row is left free.
C12_NeckCut ==
    npc = "done" =>
        /\ (item_category = "dresses" \/ item_category = "upper_body") /\ points[1][1] # points[2][1] =>
            \A p \in Grid :
                /\ FLe(ShoulderCutRow(p[2]), Whole(p[1])) => parse_head_2[p] = 0
                /\ FLe(Whole(p[1] + 1), ShoulderCutRow(p[2])) => parse_head_2[p] = parse_head[p]
        /\ item_category = "lower_body" => parse_head_2 = parse_head

====
